---- MODULE Spec2Model ----
(***************************************************************************)
(* Model of gcf_downloader.py: a batch driver that reads accession         *)
(* identifiers from a text file and, for each, downloads                   *)
(* <id>_genomic.gbff.gz from the remote repository, decompresses it and    *)
(* removes the compressed copy.                                            *)
(*                                                                         *)
(* Strings are sequences of one-character strings.  A file on disk is a    *)
(* sequence of tokens (its content); the output directory is a function    *)
(* from the names of the files present to their contents.                  *)
(***************************************************************************)
EXTENDS Integers, Sequences, FiniteSets, TLC

----------------------------------------------------------------------------
(* Bounds of the model *)

\* longest input file (number of lines) explored
MaxLines == 2
\* number of times the batch is run over the same output directory
MaxRuns == 2
\* longest digit string fed to extract_triplets
MaxDigits == 5

----------------------------------------------------------------------------
(* Strings *)

\* Python's None: a value no character sequence can equal
None == <<"None">>

\* extract_triplets has not been applied yet (function-level specification)
Unset == <<"unset">>

\* A character is a one-character string when it is printable ASCII or one
\* of the escapes "\t", "\n", "\f", "\r"; any other character is written by
\* its code point, "U+XXXX" (the module text is ASCII).

\* the characters \d matches in a str pattern: every Unicode decimal digit
\* (category Nd, str.isdecimal; Unicode 14.0), not only the ten ASCII digits
Digit ==
    { "0", "1", "2", "3", "4", "5", "6", "7", "8", "9", "U+0660", "U+0661",
      "U+0662", "U+0663", "U+0664", "U+0665", "U+0666", "U+0667", "U+0668",
      "U+0669", "U+06F0", "U+06F1", "U+06F2", "U+06F3", "U+06F4", "U+06F5",
      "U+06F6", "U+06F7", "U+06F8", "U+06F9", "U+07C0", "U+07C1", "U+07C2",
      "U+07C3", "U+07C4", "U+07C5", "U+07C6", "U+07C7", "U+07C8", "U+07C9",
      "U+0966", "U+0967", "U+0968", "U+0969", "U+096A", "U+096B", "U+096C",
      "U+096D", "U+096E", "U+096F", "U+09E6", "U+09E7", "U+09E8", "U+09E9",
      "U+09EA", "U+09EB", "U+09EC", "U+09ED", "U+09EE", "U+09EF", "U+0A66",
      "U+0A67", "U+0A68", "U+0A69", "U+0A6A", "U+0A6B", "U+0A6C", "U+0A6D",
      "U+0A6E", "U+0A6F", "U+0AE6", "U+0AE7", "U+0AE8", "U+0AE9", "U+0AEA",
      "U+0AEB", "U+0AEC", "U+0AED", "U+0AEE", "U+0AEF", "U+0B66", "U+0B67",
      "U+0B68", "U+0B69", "U+0B6A", "U+0B6B", "U+0B6C", "U+0B6D", "U+0B6E",
      "U+0B6F", "U+0BE6", "U+0BE7", "U+0BE8", "U+0BE9", "U+0BEA", "U+0BEB",
      "U+0BEC", "U+0BED", "U+0BEE", "U+0BEF", "U+0C66", "U+0C67", "U+0C68",
      "U+0C69", "U+0C6A", "U+0C6B", "U+0C6C", "U+0C6D", "U+0C6E", "U+0C6F",
      "U+0CE6", "U+0CE7", "U+0CE8", "U+0CE9", "U+0CEA", "U+0CEB", "U+0CEC",
      "U+0CED", "U+0CEE", "U+0CEF", "U+0D66", "U+0D67", "U+0D68", "U+0D69",
      "U+0D6A", "U+0D6B", "U+0D6C", "U+0D6D", "U+0D6E", "U+0D6F", "U+0DE6",
      "U+0DE7", "U+0DE8", "U+0DE9", "U+0DEA", "U+0DEB", "U+0DEC", "U+0DED",
      "U+0DEE", "U+0DEF", "U+0E50", "U+0E51", "U+0E52", "U+0E53", "U+0E54",
      "U+0E55", "U+0E56", "U+0E57", "U+0E58", "U+0E59", "U+0ED0", "U+0ED1",
      "U+0ED2", "U+0ED3", "U+0ED4", "U+0ED5", "U+0ED6", "U+0ED7", "U+0ED8",
      "U+0ED9", "U+0F20", "U+0F21", "U+0F22", "U+0F23", "U+0F24", "U+0F25",
      "U+0F26", "U+0F27", "U+0F28", "U+0F29", "U+1040", "U+1041", "U+1042",
      "U+1043", "U+1044", "U+1045", "U+1046", "U+1047", "U+1048", "U+1049",
      "U+1090", "U+1091", "U+1092", "U+1093", "U+1094", "U+1095", "U+1096",
      "U+1097", "U+1098", "U+1099", "U+17E0", "U+17E1", "U+17E2", "U+17E3",
      "U+17E4", "U+17E5", "U+17E6", "U+17E7", "U+17E8", "U+17E9", "U+1810",
      "U+1811", "U+1812", "U+1813", "U+1814", "U+1815", "U+1816", "U+1817",
      "U+1818", "U+1819", "U+1946", "U+1947", "U+1948", "U+1949", "U+194A",
      "U+194B", "U+194C", "U+194D", "U+194E", "U+194F", "U+19D0", "U+19D1",
      "U+19D2", "U+19D3", "U+19D4", "U+19D5", "U+19D6", "U+19D7", "U+19D8",
      "U+19D9", "U+1A80", "U+1A81", "U+1A82", "U+1A83", "U+1A84", "U+1A85",
      "U+1A86", "U+1A87", "U+1A88", "U+1A89", "U+1A90", "U+1A91", "U+1A92",
      "U+1A93", "U+1A94", "U+1A95", "U+1A96", "U+1A97", "U+1A98", "U+1A99",
      "U+1B50", "U+1B51", "U+1B52", "U+1B53", "U+1B54", "U+1B55", "U+1B56",
      "U+1B57", "U+1B58", "U+1B59", "U+1BB0", "U+1BB1", "U+1BB2", "U+1BB3",
      "U+1BB4", "U+1BB5", "U+1BB6", "U+1BB7", "U+1BB8", "U+1BB9", "U+1C40",
      "U+1C41", "U+1C42", "U+1C43", "U+1C44", "U+1C45", "U+1C46", "U+1C47",
      "U+1C48", "U+1C49", "U+1C50", "U+1C51", "U+1C52", "U+1C53", "U+1C54",
      "U+1C55", "U+1C56", "U+1C57", "U+1C58", "U+1C59", "U+A620", "U+A621",
      "U+A622", "U+A623", "U+A624", "U+A625", "U+A626", "U+A627", "U+A628",
      "U+A629", "U+A8D0", "U+A8D1", "U+A8D2", "U+A8D3", "U+A8D4", "U+A8D5",
      "U+A8D6", "U+A8D7", "U+A8D8", "U+A8D9", "U+A900", "U+A901", "U+A902",
      "U+A903", "U+A904", "U+A905", "U+A906", "U+A907", "U+A908", "U+A909",
      "U+A9D0", "U+A9D1", "U+A9D2", "U+A9D3", "U+A9D4", "U+A9D5", "U+A9D6",
      "U+A9D7", "U+A9D8", "U+A9D9", "U+A9F0", "U+A9F1", "U+A9F2", "U+A9F3",
      "U+A9F4", "U+A9F5", "U+A9F6", "U+A9F7", "U+A9F8", "U+A9F9", "U+AA50",
      "U+AA51", "U+AA52", "U+AA53", "U+AA54", "U+AA55", "U+AA56", "U+AA57",
      "U+AA58", "U+AA59", "U+ABF0", "U+ABF1", "U+ABF2", "U+ABF3", "U+ABF4",
      "U+ABF5", "U+ABF6", "U+ABF7", "U+ABF8", "U+ABF9", "U+FF10", "U+FF11",
      "U+FF12", "U+FF13", "U+FF14", "U+FF15", "U+FF16", "U+FF17", "U+FF18",
      "U+FF19", "U+104A0", "U+104A1", "U+104A2", "U+104A3", "U+104A4",
      "U+104A5", "U+104A6", "U+104A7", "U+104A8", "U+104A9", "U+10D30",
      "U+10D31", "U+10D32", "U+10D33", "U+10D34", "U+10D35", "U+10D36",
      "U+10D37", "U+10D38", "U+10D39", "U+11066", "U+11067", "U+11068",
      "U+11069", "U+1106A", "U+1106B", "U+1106C", "U+1106D", "U+1106E",
      "U+1106F", "U+110F0", "U+110F1", "U+110F2", "U+110F3", "U+110F4",
      "U+110F5", "U+110F6", "U+110F7", "U+110F8", "U+110F9", "U+11136",
      "U+11137", "U+11138", "U+11139", "U+1113A", "U+1113B", "U+1113C",
      "U+1113D", "U+1113E", "U+1113F", "U+111D0", "U+111D1", "U+111D2",
      "U+111D3", "U+111D4", "U+111D5", "U+111D6", "U+111D7", "U+111D8",
      "U+111D9", "U+112F0", "U+112F1", "U+112F2", "U+112F3", "U+112F4",
      "U+112F5", "U+112F6", "U+112F7", "U+112F8", "U+112F9", "U+11450",
      "U+11451", "U+11452", "U+11453", "U+11454", "U+11455", "U+11456",
      "U+11457", "U+11458", "U+11459", "U+114D0", "U+114D1", "U+114D2",
      "U+114D3", "U+114D4", "U+114D5", "U+114D6", "U+114D7", "U+114D8",
      "U+114D9", "U+11650", "U+11651", "U+11652", "U+11653", "U+11654",
      "U+11655", "U+11656", "U+11657", "U+11658", "U+11659", "U+116C0",
      "U+116C1", "U+116C2", "U+116C3", "U+116C4", "U+116C5", "U+116C6",
      "U+116C7", "U+116C8", "U+116C9", "U+11730", "U+11731", "U+11732",
      "U+11733", "U+11734", "U+11735", "U+11736", "U+11737", "U+11738",
      "U+11739", "U+118E0", "U+118E1", "U+118E2", "U+118E3", "U+118E4",
      "U+118E5", "U+118E6", "U+118E7", "U+118E8", "U+118E9", "U+11950",
      "U+11951", "U+11952", "U+11953", "U+11954", "U+11955", "U+11956",
      "U+11957", "U+11958", "U+11959", "U+11C50", "U+11C51", "U+11C52",
      "U+11C53", "U+11C54", "U+11C55", "U+11C56", "U+11C57", "U+11C58",
      "U+11C59", "U+11D50", "U+11D51", "U+11D52", "U+11D53", "U+11D54",
      "U+11D55", "U+11D56", "U+11D57", "U+11D58", "U+11D59", "U+11DA0",
      "U+11DA1", "U+11DA2", "U+11DA3", "U+11DA4", "U+11DA5", "U+11DA6",
      "U+11DA7", "U+11DA8", "U+11DA9", "U+16A60", "U+16A61", "U+16A62",
      "U+16A63", "U+16A64", "U+16A65", "U+16A66", "U+16A67", "U+16A68",
      "U+16A69", "U+16AC0", "U+16AC1", "U+16AC2", "U+16AC3", "U+16AC4",
      "U+16AC5", "U+16AC6", "U+16AC7", "U+16AC8", "U+16AC9", "U+16B50",
      "U+16B51", "U+16B52", "U+16B53", "U+16B54", "U+16B55", "U+16B56",
      "U+16B57", "U+16B58", "U+16B59", "U+1D7CE", "U+1D7CF", "U+1D7D0",
      "U+1D7D1", "U+1D7D2", "U+1D7D3", "U+1D7D4", "U+1D7D5", "U+1D7D6",
      "U+1D7D7", "U+1D7D8", "U+1D7D9", "U+1D7DA", "U+1D7DB", "U+1D7DC",
      "U+1D7DD", "U+1D7DE", "U+1D7DF", "U+1D7E0", "U+1D7E1", "U+1D7E2",
      "U+1D7E3", "U+1D7E4", "U+1D7E5", "U+1D7E6", "U+1D7E7", "U+1D7E8",
      "U+1D7E9", "U+1D7EA", "U+1D7EB", "U+1D7EC", "U+1D7ED", "U+1D7EE",
      "U+1D7EF", "U+1D7F0", "U+1D7F1", "U+1D7F2", "U+1D7F3", "U+1D7F4",
      "U+1D7F5", "U+1D7F6", "U+1D7F7", "U+1D7F8", "U+1D7F9", "U+1D7FA",
      "U+1D7FB", "U+1D7FC", "U+1D7FD", "U+1D7FE", "U+1D7FF", "U+1E140",
      "U+1E141", "U+1E142", "U+1E143", "U+1E144", "U+1E145", "U+1E146",
      "U+1E147", "U+1E148", "U+1E149", "U+1E2F0", "U+1E2F1", "U+1E2F2",
      "U+1E2F3", "U+1E2F4", "U+1E2F5", "U+1E2F6", "U+1E2F7", "U+1E2F8",
      "U+1E2F9", "U+1E950", "U+1E951", "U+1E952", "U+1E953", "U+1E954",
      "U+1E955", "U+1E956", "U+1E957", "U+1E958", "U+1E959", "U+1FBF0",
      "U+1FBF1", "U+1FBF2", "U+1FBF3", "U+1FBF4", "U+1FBF5", "U+1FBF6",
      "U+1FBF7", "U+1FBF8", "U+1FBF9" }

\* the characters str.strip() removes: every Unicode whitespace character
\* (str.isspace)
Whitespace ==
    { "\t", "\n", "U+000B", "\f", "\r", "U+001C", "U+001D", "U+001E",
      "U+001F", " ", "U+0085", "U+00A0", "U+1680", "U+2000", "U+2001",
      "U+2002", "U+2003", "U+2004", "U+2005", "U+2006", "U+2007", "U+2008",
      "U+2009", "U+200A", "U+2028", "U+2029", "U+202F", "U+205F", "U+3000" }

Min(a, b) == IF a <= b THEN a ELSE b

\* the literal 'GCF_' of the pattern
Marker == <<"G", "C", "F", "_">>

\* "_genomic.gbff"
GenomicGbff == <<"_", "g", "e", "n", "o", "m", "i", "c", ".", "g", "b", "f", "f">>

\* ".gz"
GzSuffix == <<".", "g", "z">>

\* index of the last character of the longest run of digits of s that starts
\* at j (j - 1 when s[j] is not a digit): the greedy \d+ of the pattern
RECURSIVE DigitRunEnd(_, _)
DigitRunEnd(s, j) ==
    IF j <= Len(s) /\ s[j] \in Digit THEN DigitRunEnd(s, j + 1) ELSE j - 1

\* the pattern GCF_(\d+)\. matches s at position i
MatchAt(s, i) ==
    /\ i + 3 <= Len(s)
    /\ SubSeq(s, i, i + 3) = Marker
    /\ LET e == DigitRunEnd(s, i + 4)
       IN  /\ e >= i + 4
           /\ e + 1 <= Len(s)
           /\ s[e + 1] = "."

\* re.search(r'GCF_(\d+)\.', s): group(1) of the leftmost match, or None
re_search(s) ==
    IF \E i \in 1..Len(s) : MatchAt(s, i)
    THEN LET i == CHOOSE k \in 1..Len(s) :
                      MatchAt(s, k) /\ \A m \in 1..(k - 1) : ~MatchAt(s, m)
         IN  SubSeq(s, i + 4, DigitRunEnd(s, i + 4))
    ELSE None

\* [digits[i:i+3] for i in range(0, len(digits), 3)]
\* faulty variant: groups of 2 digits
Triplets_chunk2(digits) ==
    [k \in 1..((Len(digits) + 1) \div 2) |->
        SubSeq(digits, 2 * (k - 1) + 1, Min(2 * k, Len(digits)))]

Triplets(digits) ==
    [k \in 1..((Len(digits) + 2) \div 3) |->
        SubSeq(digits, 3 * (k - 1) + 1, Min(3 * k, Len(digits)))]

\* sep.join(parts)
RECURSIVE Join(_, _)
Join(parts, sep) ==
    IF parts = <<>> THEN <<>>
    ELSE IF Len(parts) = 1 THEN parts[1]
    ELSE parts[1] \o <<sep>> \o Join(Tail(parts), sep)

\* faulty variant: the pattern without its terminating '\.'
extract_triplets_nodot(gcf_number) ==
    IF \E i \in 1..Len(gcf_number) :
           /\ i + 3 <= Len(gcf_number)
           /\ SubSeq(gcf_number, i, i + 3) = Marker
           /\ DigitRunEnd(gcf_number, i + 4) >= i + 4
    THEN LET i == CHOOSE k \in 1..Len(gcf_number) :
                      /\ k + 3 <= Len(gcf_number)
                      /\ SubSeq(gcf_number, k, k + 3) = Marker
                      /\ DigitRunEnd(gcf_number, k + 4) >= k + 4
         IN  Join(Triplets(SubSeq(gcf_number, i + 4,
                                  DigitRunEnd(gcf_number, i + 4))), "/")
    ELSE None

extract_triplets(gcf_number) ==
    LET match == re_search(gcf_number)
    IN  IF match = None THEN None ELSE Join(Triplets(match), "/")

\* Python truthiness of an optional string: `not x`
Falsy(x) == x = None \/ x = <<>>

\* line.strip()
RECURSIVE LStrip(_)
LStrip(s) ==
    IF s # <<>> /\ Head(s) \in Whitespace THEN LStrip(Tail(s)) ELSE s

RECURSIVE RStrip(_)
RStrip(s) ==
    IF s # <<>> /\ s[Len(s)] \in Whitespace
    THEN RStrip(SubSeq(s, 1, Len(s) - 1)) ELSE s

Strip(s) == LStrip(RStrip(s))

\* [line.strip() for line in lines if line.strip()]
RECURSIVE ReadList(_)
ReadList(lines) ==
    IF lines = <<>> THEN <<>>
    ELSE IF Strip(Head(lines)) # <<>>
         THEN <<Strip(Head(lines))>> \o ReadList(Tail(lines))
         ELSE ReadList(Tail(lines))

\* genome_file = f"{gcf_number}_genomic.gbff"
GenomeFile(gcf_number) == gcf_number \o GenomicGbff

\* genome_gz_file = genome_file + ".gz"
GenomeGzFile(gcf_number) == GenomeFile(gcf_number) \o GzSuffix

----------------------------------------------------------------------------
(* gzip streams.  A compressed stream is a sequence of tokens: a header    *)
(* "H", data blocks, a trailer "T".  A zero-length file reads as empty.    *)

\* what gzip.open(path).read() makes of a file content: whether the whole
\* stream decodes, and the data decoded up to the end or to the error
Gunzip(stream) ==
    IF stream = <<>> THEN [ok |-> TRUE, data |-> <<>>]
    ELSE IF Head(stream) # "H" THEN [ok |-> FALSE, data |-> <<>>]
    ELSE IF stream[Len(stream)] = "T" /\ Len(stream) >= 2
         THEN [ok |-> TRUE, data |-> SubSeq(stream, 2, Len(stream) - 1)]
         ELSE [ok |-> FALSE, data |-> SubSeq(stream, 2, Len(stream))]

\* the prefixes of a sequence
Prefixes(s) == {SubSeq(s, 1, k) : k \in 0..Len(s)}

----------------------------------------------------------------------------
(* Inputs *)

\* "GCF_1234.1": the last group of digits is shorter than 3
IdA == <<"G", "C", "F", "_", "1", "2", "3", "4", ".", "1">>

\* "GCF_000005845.2"
IdB == <<"G", "C", "F", "_", "0", "0", "0", "0", "0", "5", "8", "4", "5", ".", "2">>

\* "NOT_A_GCF_NUMBER": a prefix marker without a numeric segment
IdBad == <<"N", "O", "T", "_", "A", "_", "G", "C", "F", "_", "N", "U", "M", "B", "E", "R">>

\* "GCF_12": a numeric segment without the terminating '.'
IdNoDot == <<"G", "C", "F", "_", "1", "2">>

\* the lines file.readlines() can return, terminator included
Lines ==
    { <<"\n">>,
      <<"\f", " ">> \o IdA \o <<"U+00A0", "\n">>,
      IdB \o <<"\n">>,
      IdBad \o <<"\n">>,
      IdNoDot \o <<"\n">> }

\* the input files: at most MaxLines lines
Files == UNION {[1..n -> Lines] : n \in 0..MaxLines}

\* the bodies the remote serves for a .gbff.gz: an empty body, a stream that
\* holds no data, a stream with one block of data, and a body that is not gzip
Bodies == { <<>>, <<"H", "T">>, <<"H", "d", "T">>, <<"x">> }

\* the status codes of the HEAD answer that the model explores
Statuses == {200, 301, 404}

\* content of a file that is in the output directory before the first run
Old == <<"o">>

\* names of the files that may be in the output directory before the first run
OldNames == {GenomeFile(IdA), GenomeGzFile(IdA), GenomeFile(IdB), GenomeGzFile(IdB)}

----------------------------------------------------------------------------
(* State *)

VARIABLES
    file,       \* the lines of the input file (args.input_file)
    dirExists,  \* the output directory exists
    disk,       \* output directory: name of each file present -> content
    gcf_list,   \* main: the identifiers read from the input file
    idx,        \* main: position in gcf_list of the loop `for gcf in gcf_list`
    pc,         \* position of the program
    run,        \* number of the current run of the batch
    calls,      \* identifiers download_genome was called with, this run
    inv,        \* the current (or last finished) call of download_genome
    tin,        \* argument of extract_triplets (function-level specification)
    tout        \* result of extract_triplets(tin), or Unset

vars == <<file, dirExists, disk, gcf_list, idx, pc, run, calls, inv, tin, tout>>

\* no call of download_genome yet in this run.  head is the status of the
\* answer to the HEAD request: 0 before the request, -1 when it raised
NoInv ==
    [gcf |-> <<>>, pos |-> 0, outcome |-> "none", head |-> 0, get |-> FALSE,
     mkdir |-> FALSE, body |-> None, disk0 |-> << >>, dir0 |-> FALSE]

\* output_gz_path.exists() or output_gbff_path.exists()
\* faulty variants: only one of the two forms is looked for; nothing is
\* looked for
AlreadyExists_gzOnly(d, gcf) == GenomeGzFile(gcf) \in DOMAIN d

AlreadyExists_gbffOnly(d, gcf) == GenomeFile(gcf) \in DOMAIN d

AlreadyExists_never(d, gcf) == FALSE

AlreadyExists(d, gcf) ==
    GenomeGzFile(gcf) \in DOMAIN d \/ GenomeFile(gcf) \in DOMAIN d

\* the file `name` written with `content` (open(name, 'wb') and writes)
WriteFile(d, name, content) ==
    [n \in DOMAIN d \cup {name} |-> IF n = name THEN content ELSE d[n]]

\* os.remove(name)
RemoveFile(d, name) == [n \in DOMAIN d \ {name} |-> d[n]]

\* the loop of main after position i: the next identifier, or the end
ForNext(i, list) == IF i <= Len(list) THEN "call" ELSE "done"

\* download_genome returns to the loop of main, which takes the next one
\* faulty variant: the loop skips the identifier after a finished one
Returned_skip(i, list) == [pc |-> ForNext(i + 2, list), idx |-> i + 2]

Returned(i, list) == [pc |-> ForNext(i + 1, list), idx |-> i + 1]

\* an exception leaves download_genome: nothing catches it, the run ends
\* faulty variant: the loop catches the exception and goes on with the next one
Uncaught_swallowed(i, list) == Returned(i, list)

Uncaught(i, list) == [pc |-> "crashed", idx |-> i]

Init ==
    /\ file \in Files
    /\ dirExists \in BOOLEAN
    /\ \E present \in SUBSET OldNames :
           /\ ~dirExists => present = {}
           /\ disk = [n \in present |-> Old]
    /\ gcf_list = <<>>
    /\ idx = 1
    /\ pc = "start"
    /\ run = 1
    /\ calls = <<>>
    /\ inv = NoInv
    /\ tin = <<>>
    /\ tout = Unset

----------------------------------------------------------------------------
(* main *)

\* main, lines 83-84: read the identifiers, then enter the loop
ReadInput ==
    /\ pc = "start"
    /\ gcf_list' = ReadList(file)
    /\ idx' = 1
    /\ pc' = ForNext(1, gcf_list')
    /\ calls' = <<>>
    /\ inv' = NoInv
    /\ UNCHANGED <<file, dirExists, disk, run, tin, tout>>

\* the batch is run again on the same input file and output directory
NewRun ==
    /\ pc \in {"done", "crashed"}
    /\ run < MaxRuns
    /\ run' = run + 1
    /\ pc' = "start"
    /\ gcf_list' = <<>>
    /\ idx' = 1
    /\ calls' = <<>>
    /\ inv' = NoInv
    /\ UNCHANGED <<file, dirExists, disk, tin, tout>>

----------------------------------------------------------------------------
(* download_genome(gcf_list[idx], output_dir) *)

\* the record of a call that starts now
NewInv ==
    [gcf |-> gcf_list[idx], pos |-> idx, outcome |-> "running", head |-> 0,
     get |-> FALSE, mkdir |-> FALSE, body |-> None, disk0 |-> disk,
     dir0 |-> dirExists]

\* the call returns with the outcome o
Return(o, r) ==
    /\ inv' = [r EXCEPT !.outcome = o]
    /\ pc' = Returned(idx, gcf_list).pc
    /\ idx' = Returned(idx, gcf_list).idx

\* an exception with the outcome o leaves the call
Raise(o, r) ==
    /\ inv' = [r EXCEPT !.outcome = o]
    /\ pc' = Uncaught(idx, gcf_list).pc
    /\ idx' = Uncaught(idx, gcf_list).idx

\* lines 30-32: the identifier does not parse, "Invalid GCF number format"
EnterInvalid ==
    /\ pc = "call"
    /\ Falsy(extract_triplets(gcf_list[idx]))
    /\ calls' = Append(calls, gcf_list[idx])
    /\ Return("invalid", NewInv)
    /\ UNCHANGED <<file, dirExists, disk, gcf_list, run, tin, tout>>

\* lines 39-45: one of the two local forms exists, "already exists"
EnterExists ==
    /\ pc = "call"
    /\ ~Falsy(extract_triplets(gcf_list[idx]))
    /\ AlreadyExists(disk, gcf_list[idx])
    /\ calls' = Append(calls, gcf_list[idx])
    /\ Return("exists", NewInv)
    /\ UNCHANGED <<file, dirExists, disk, gcf_list, run, tin, tout>>

\* lines 30-48: the identifier parses and no local form exists
EnterProceed ==
    /\ pc = "call"
    /\ ~Falsy(extract_triplets(gcf_list[idx]))
    /\ ~AlreadyExists(disk, gcf_list[idx])
    /\ calls' = Append(calls, gcf_list[idx])
    /\ inv' = NewInv
    /\ pc' = "head"
    /\ UNCHANGED <<file, dirExists, disk, gcf_list, idx, run, tin, tout>>

\* line 51: the remote resource exists
\* faulty variant: every status below 400 counts as found
Found_below400(status) == status < 400

Found(status) == status = 200

\* line 50: requests.head raises (no connection)
HeadRaises ==
    /\ pc = "head"
    /\ Raise("head_error", [inv EXCEPT !.head = -1])
    /\ UNCHANGED <<file, dirExists, disk, gcf_list, run, calls, tin, tout>>

\* lines 50-53: the status is not 200, "Genome file not found"
HeadNotFound ==
    /\ pc = "head"
    /\ \E status \in Statuses :
           /\ ~Found(status)
           /\ Return("notfound", [inv EXCEPT !.head = status])
    /\ UNCHANGED <<file, dirExists, disk, gcf_list, run, calls, tin, tout>>

\* lines 50-51: the status is 200
HeadOk ==
    /\ pc = "head"
    /\ \E status \in Statuses :
           /\ Found(status)
           /\ inv' = [inv EXCEPT !.head = status]
    /\ pc' = "mkdir"
    /\ UNCHANGED <<file, dirExists, disk, gcf_list, idx, run, calls, tin, tout>>

\* line 55: os.makedirs(output_dir, exist_ok=True)
Makedirs ==
    /\ pc = "mkdir"
    /\ dirExists' = TRUE
    /\ inv' = [inv EXCEPT !.mkdir = TRUE]
    /\ pc' = "get"
    /\ UNCHANGED <<file, disk, gcf_list, idx, run, calls, tin, tout>>

\* line 55: os.makedirs fails (no permission)
MakedirsFails ==
    /\ pc = "mkdir"
    /\ ~dirExists
    /\ Raise("mkdir_error", inv)
    /\ UNCHANGED <<file, dirExists, disk, gcf_list, run, calls, tin, tout>>

\* line 58: requests.get raises before any answer
GetConnError ==
    /\ pc = "get"
    /\ Raise("get_conn_error", [inv EXCEPT !.get = TRUE])
    /\ UNCHANGED <<file, dirExists, disk, gcf_list, run, calls, tin, tout>>

\* line 59: raise_for_status on a non-success status of the GET
GetBadStatus ==
    /\ pc = "get"
    /\ Raise("get_bad_status", [inv EXCEPT !.get = TRUE])
    /\ UNCHANGED <<file, dirExists, disk, gcf_list, run, calls, tin, tout>>

\* what a dropped connection leaves of the file being written
\* faulty variant: the partial file is removed when the transfer fails
AfterDrop_cleanup(d, name, part) == RemoveFile(d, name)

AfterDrop(d, name, part) == WriteFile(d, name, part)

\* lines 60-62: the file is opened, the connection drops in mid-stream
GetDrop ==
    /\ pc = "get"
    /\ \E body \in Bodies : \E part \in Prefixes(body) :
           /\ disk' = AfterDrop(disk, GenomeGzFile(inv.gcf), part)
           /\ Raise("get_drop", [inv EXCEPT !.get = TRUE, !.body = body])
    /\ UNCHANGED <<file, dirExists, gcf_list, run, calls, tin, tout>>

\* lines 58-64: the whole body is written, "Downloaded"
GetOk ==
    /\ pc = "get"
    /\ \E body \in Bodies :
           /\ disk' = WriteFile(disk, GenomeGzFile(inv.gcf), body)
           /\ inv' = [inv EXCEPT !.get = TRUE, !.body = body]
    /\ pc' = "extract"
    /\ UNCHANGED <<file, dirExists, gcf_list, idx, run, calls, tin, tout>>

\* lines 67-69: the compressed file decodes into the decompressed one
\* faulty variant: the decompressed file is opened and nothing is copied
Extracted_empty(stream) == <<>>

Extracted(stream) == Gunzip(stream).data

ExtractOk ==
    /\ pc = "extract"
    /\ Gunzip(disk[GenomeGzFile(inv.gcf)]).ok
    /\ disk' = WriteFile(disk, GenomeFile(inv.gcf),
                         Extracted(disk[GenomeGzFile(inv.gcf)]))
    /\ pc' = "remove"
    /\ UNCHANGED <<file, dirExists, gcf_list, idx, run, calls, inv, tin, tout>>

\* lines 67-69: the stream is not gzip or ends early; the decompressed file
\* is open and holds what was copied before the error
ExtractBadStream ==
    /\ pc = "extract"
    /\ ~Gunzip(disk[GenomeGzFile(inv.gcf)]).ok
    /\ \E part \in Prefixes(Gunzip(disk[GenomeGzFile(inv.gcf)]).data) :
           disk' = WriteFile(disk, GenomeFile(inv.gcf), part)
    /\ Raise("extract_error", inv)
    /\ UNCHANGED <<file, dirExists, gcf_list, run, calls, tin, tout>>

\* line 68: the decompressed file cannot be opened for writing
ExtractOpenFails ==
    /\ pc = "extract"
    /\ Raise("extract_error", inv)
    /\ UNCHANGED <<file, dirExists, disk, gcf_list, run, calls, tin, tout>>

\* lines 68-69: the disk is full while the decompressed file is written
ExtractDiskFull ==
    /\ pc = "extract"
    /\ \E part \in Prefixes(Gunzip(disk[GenomeGzFile(inv.gcf)]).data) :
           disk' = WriteFile(disk, GenomeFile(inv.gcf), part)
    /\ Raise("extract_error", inv)
    /\ UNCHANGED <<file, dirExists, gcf_list, run, calls, tin, tout>>

\* lines 71-72: the compressed file is removed, "Extracted"
Remove ==
    /\ pc = "remove"
    /\ disk' = RemoveFile(disk, GenomeGzFile(inv.gcf))
    /\ Return("extracted", inv)
    /\ UNCHANGED <<file, dirExists, gcf_list, run, calls, tin, tout>>

Next ==
    \/ ReadInput
    \/ NewRun
    \/ EnterInvalid
    \/ EnterExists
    \/ EnterProceed
    \/ HeadRaises
    \/ HeadNotFound
    \/ HeadOk
    \/ Makedirs
    \/ MakedirsFails
    \/ GetConnError
    \/ GetBadStatus
    \/ GetDrop
    \/ GetOk
    \/ ExtractOk
    \/ ExtractBadStream
    \/ ExtractOpenFails
    \/ ExtractDiskFull
    \/ Remove

Spec == Init /\ [][Next]_vars

----------------------------------------------------------------------------
(* extract_triplets alone, over bounded identifiers *)

\* the digits the identifiers are made of; U+0663 is ARABIC-INDIC DIGIT THREE
SomeDigits == {"0", "5", "U+0663"}

\* digit strings of at most MaxDigits digits
DigitStrings == UNION {[1..n -> SomeDigits] : n \in 0..MaxDigits}

\* what precedes the digits: the prefix marker, alone or after other
\* characters, or another prefix
Heads == {Marker, <<"x">> \o Marker, <<"G", "C", "A", "_">>}

\* what follows the digits
Tails == {<<>>, <<".">>, <<".", "1">>, <<"a", ".", "1">>}

TInputs == {h \o d \o t : h \in Heads, d \in DigitStrings, t \in Tails}

InitT ==
    /\ tin \in TInputs
    /\ tout = Unset
    /\ file = <<>>
    /\ dirExists = FALSE
    /\ disk = << >>
    /\ gcf_list = <<>>
    /\ idx = 1
    /\ pc = "start"
    /\ run = 1
    /\ calls = <<>>
    /\ inv = NoInv

\* extract_triplets(tin)
ExtractTriplets ==
    /\ tout = Unset
    /\ tout' = extract_triplets(tin)
    /\ UNCHANGED <<tin, file, dirExists, disk, gcf_list, idx, pc, run, calls, inv>>

NextT == ExtractTriplets

SpecT == InitT /\ [][NextT]_vars

----------------------------------------------------------------------------
(* Properties *)

\* a call of download_genome is between its existence check and its return
InFlight == pc \in {"head", "mkdir", "get", "extract", "remove"}

\* the last call of download_genome has returned or raised
Finished == inv.outcome \notin {"none", "running"}

\* the well-formed identifiers of the input files
GoodIds == {IdA, IdB}

\* the main loop stands at the identifier after the last call
AtNext ==
    /\ idx = inv.pos + 1
    /\ pc = IF idx <= Len(gcf_list) THEN "call" ELSE "done"

\* the last call made no network request and left the directory as it was
Untouched ==
    /\ inv.head = 0
    /\ ~inv.get
    /\ ~inv.mkdir
    /\ disk = inv.disk0
    /\ dirExists = inv.dir0

\* C1 (as amended): when download_genome returns after a successful HEAD,
\* download and extraction, the compressed artifact does not exist and the
\* decompressed artifact exists and holds exactly the decompressed body
C1_SuccessLeavesOnlyGbff ==
    inv.outcome = "extracted" =>
        /\ GenomeGzFile(inv.gcf) \notin DOMAIN disk
        /\ GenomeFile(inv.gcf) \in DOMAIN disk
        /\ disk[GenomeFile(inv.gcf)] = Gunzip(inv.body).data
        /\ GenomeGzFile(inv.gcf) \notin DOMAIN inv.disk0
        /\ GenomeFile(inv.gcf) \notin DOMAIN inv.disk0

\* C1 (as stated): ... and the decompressed artifact is non-empty
C1_SuccessLeavesNonEmptyGbff ==
    inv.outcome = "extracted" =>
        /\ GenomeGzFile(inv.gcf) \notin DOMAIN disk
        /\ GenomeFile(inv.gcf) \in DOMAIN disk
        /\ disk[GenomeFile(inv.gcf)] # <<>>

C1_Witness ==
    /\ inv.outcome = "extracted"
    /\ inv.head = 200
    /\ inv.body = <<"H", "d", "T">>
    /\ disk[GenomeFile(inv.gcf)] = <<"d">>

\* C2: a call made while the decompressed artifact exists makes no network
\* request and creates, modifies and removes no file
C2_GbffPresentSkips ==
    (inv.outcome # "none" /\ GenomeFile(inv.gcf) \in DOMAIN inv.disk0) =>
        /\ inv.outcome = "exists"
        /\ Untouched

C2_Witness ==
    /\ inv.outcome = "exists"
    /\ GenomeFile(inv.gcf) \in DOMAIN inv.disk0
    /\ GenomeGzFile(inv.gcf) \notin DOMAIN inv.disk0

\* the compressed artifact of g is left over: it exists without the
\* decompressed one, and no call is busy extracting it
Leftover(g) ==
    /\ GenomeGzFile(g) \in DOMAIN disk
    /\ GenomeFile(g) \notin DOMAIN disk
    /\ ~(pc \in {"extract", "remove"} /\ inv.gcf = g)

\* C3: a call made while only the compressed artifact exists makes no
\* network request and extracts nothing, and over all later runs a
\* left-over compressed file stays as it is, without a decompressed artifact
C3_LeftoverNeverRetried ==
    /\ [](  (inv.outcome # "none"
             /\ GenomeGzFile(inv.gcf) \in DOMAIN inv.disk0
             /\ GenomeFile(inv.gcf) \notin DOMAIN inv.disk0)
          => (inv.outcome = "exists" /\ Untouched) )
    /\ [][ \A g \in GoodIds :
             Leftover(g) =>
                 /\ Leftover(g)'
                 /\ disk'[GenomeGzFile(g)] = disk[GenomeGzFile(g)] ]_vars

C3_Witness ==
    /\ run = MaxRuns
    /\ inv.outcome = "exists"
    /\ Leftover(inv.gcf)
    /\ GenomeFile(inv.gcf) \notin DOMAIN inv.disk0

\* an identifier without a numeric segment after a prefix marker, or
\* without any '.' delimiter
Malformed(s) ==
    \/ \A i \in 1..Len(s) : s[i] # "."
    \/ \A i \in 1..Len(s) :
         ~(/\ i + 4 <= Len(s)
           /\ s[i] = "G" /\ s[i + 1] = "C" /\ s[i + 2] = "F" /\ s[i + 3] = "_"
           /\ s[i + 4] \in Digit)

\* C4: for a malformed identifier download_genome makes no network request,
\* changes nothing on disk and returns, and the driver goes on with the
\* next identifier
C4_MalformedSkipped ==
    (inv.outcome # "none" /\ Malformed(inv.gcf)) =>
        /\ inv.outcome = "invalid"
        /\ extract_triplets(inv.gcf) = None
        /\ Untouched
        /\ AtNext

C4_Witness ==
    /\ inv.outcome = "invalid"
    /\ inv.gcf = IdNoDot
    /\ pc = "call"
    /\ gcf_list[idx] \in GoodIds

\* C5: a HEAD answer other than 200 skips the identifier (no GET, no
\* directory, no file, no exception, the driver goes on), and the output
\* directory is created only by a call that parsed its identifier, found no
\* local artifact and got the status 200
C5_NotFoundSkipped ==
    /\ [](  (inv.head > 0 /\ inv.head # 200)
          => /\ inv.outcome = "notfound"
             /\ ~inv.get
             /\ ~inv.mkdir
             /\ disk = inv.disk0
             /\ dirExists = inv.dir0
             /\ AtNext )
    /\ [][ dirExists' # dirExists =>
             /\ pc = "mkdir"
             /\ inv.head = 200
             /\ ~Malformed(inv.gcf)
             /\ GenomeGzFile(inv.gcf) \notin DOMAIN inv.disk0
             /\ GenomeFile(inv.gcf) \notin DOMAIN inv.disk0 ]_vars

C5_Witness ==
    /\ inv.outcome = "notfound"
    /\ inv.head = 404
    /\ ~dirExists
    /\ pc = "call"

\* the failures of the transfer itself
TransportFailures == {"get_conn_error", "get_bad_status", "get_drop"}

\* C6: a transport failure of the GET ends the run: the loop does not
\* advance, no later identifier is passed to download_genome, and the only
\* thing that can follow is another run
C6_TransportFailureEndsRun ==
    /\ [](  inv.outcome \in TransportFailures
          => /\ pc = "crashed"
             /\ idx = inv.pos
             /\ Len(calls) = inv.pos )
    /\ [][ inv.outcome \in TransportFailures =>
             /\ run' = run + 1
             /\ calls' = <<>>
             /\ disk' = disk ]_vars

C6_Witness ==
    /\ inv.outcome \in TransportFailures
    /\ inv.pos < Len(gcf_list)
    /\ pc = "crashed"

\* the lines of the input file that hold something other than whitespace
NonBlank == {i \in 1..Len(file) : \E k \in 1..Len(file[i]) : file[i][k] \notin Whitespace}

\* the k-th non-blank line of the input file
NthNonBlank(k) ==
    CHOOSE i \in NonBlank : Cardinality({j \in NonBlank : j <= i}) = k

\* t is the line without the whitespace at its two ends
IsTrimOf(t, line) ==
    /\ t # <<>>
    /\ t[1] \notin Whitespace
    /\ t[Len(t)] \notin Whitespace
    /\ \E a \in 0..(Len(line) - Len(t)) :
         /\ SubSeq(line, a + 1, a + Len(t)) = t
         /\ \A i \in 1..Len(line) :
              (i <= a \/ i > a + Len(t)) => line[i] \in Whitespace

\* C7: download_genome is called once per non-blank line of the input file,
\* with the trimmed line, in the order of the file and one call at a time:
\* a call starts only when the previous one has returned, and a run that
\* ends without an exception has called it for every identifier
C7_OncePerLineInOrder ==
    /\ Len(calls) <= Cardinality(NonBlank)
    /\ \A k \in 1..Len(calls) : IsTrimOf(calls[k], file[NthNonBlank(k)])
    /\ InFlight => (inv.outcome = "running" /\ inv.pos = Len(calls))
    /\ pc = "call" => (inv.outcome # "running" /\ Len(calls) = inv.pos)
    /\ inv.outcome # "none" => inv.gcf = calls[inv.pos]
    /\ pc = "done" => Len(calls) = Cardinality(NonBlank)

C7_Witness ==
    /\ pc = "done"
    /\ Len(file) > Len(calls)
    /\ Len(calls) = 1
    /\ calls[1] = IdA
    /\ inv.outcome = "extracted"

\* the name of a file changes between the two states of a step: the file is
\* created, removed or gets another content
Changed(n) ==
    \/ n \notin DOMAIN disk
    \/ n \notin DOMAIN disk'
    \/ disk'[n] # disk[n]

\* C9: every step that creates, rewrites or removes a file belongs to a call
\* of download_genome that found neither artifact of its identifier: the
\* file is one of the two artifacts of that identifier and did not exist at
\* the existence check, no existing content is rewritten, extraction and
\* removal follow the completed download of the same call, and only the
\* compressed file that the call downloaded is removed
C9_NoExistingFileTouched ==
    [][ \A n \in DOMAIN disk \cup DOMAIN disk' :
          Changed(n) =>
            /\ pc \in {"get", "extract", "remove"}
            /\ n \in {GenomeGzFile(inv.gcf), GenomeFile(inv.gcf)}
            /\ n \notin DOMAIN inv.disk0
            /\ GenomeGzFile(inv.gcf) \notin DOMAIN inv.disk0
            /\ GenomeFile(inv.gcf) \notin DOMAIN inv.disk0
            /\ n \in DOMAIN disk =>
                 /\ n \notin DOMAIN disk'
                 /\ n = GenomeGzFile(inv.gcf)
                 /\ pc = "remove"
            /\ pc \in {"extract", "remove"} =>
                 /\ inv.get
                 /\ disk[GenomeGzFile(inv.gcf)] = inv.body ]_vars

C9_Witness ==
    /\ run = 1
    /\ Len(calls) = 2
    /\ calls[1] = calls[2]
    /\ inv.outcome = "exists"
    /\ inv.pos = 2
    /\ \E n \in DOMAIN disk : disk[n] = Old
    /\ GenomeFile(inv.gcf) \in DOMAIN disk
    /\ disk[GenomeFile(inv.gcf)] = <<"d">>

\* one of the two artifacts of g is on disk and no call is busy with g
Present(g) ==
    /\ GenomeGzFile(g) \in DOMAIN disk \/ GenomeFile(g) \in DOMAIN disk
    /\ ~(InFlight /\ inv.gcf = g)

\* C10: a connection drop during the download, or a failed extraction,
\* ends the run with the compressed file still on disk, and from then on
\* the artifacts of that identifier stay and every call for it returns
\* "already exists" without a network request
C10_NoCleanupOnFailure ==
    /\ [](  inv.outcome \in {"get_drop", "extract_error"}
          => /\ pc = "crashed"
             /\ GenomeGzFile(inv.gcf) \in DOMAIN disk
             /\ GenomeGzFile(inv.gcf) \notin DOMAIN inv.disk0 )
    /\ [][ \A g \in GoodIds :
             Present(g) =>
               /\ Present(g)'
               /\ (calls' # calls /\ calls' # <<>> /\ calls'[Len(calls')] = g)
                    => /\ inv'.outcome = "exists"
                       /\ inv'.head = 0
                       /\ ~inv'.get
                       /\ disk' = disk ]_vars

C10_Witness ==
    /\ run = MaxRuns
    /\ inv.outcome = "exists"
    /\ ~(\E n \in DOMAIN disk : disk[n] = Old)
    /\ GenomeGzFile(inv.gcf) \in DOMAIN disk
    /\ GenomeFile(inv.gcf) \notin DOMAIN disk
    /\ disk[GenomeGzFile(inv.gcf)] = <<"H", "d">>

\* s is PREFIX_<digits>.<version> with n digits
WellFormedWith(s, n) ==
    /\ n >= 1
    /\ Len(s) >= 5 + n
    /\ s[1] = "G" /\ s[2] = "C" /\ s[3] = "F" /\ s[4] = "_"
    /\ \A k \in 5..(4 + n) : s[k] \in Digit
    /\ s[5 + n] = "."

\* x is not the character '/'
NotSlash(x) == x # "/"

\* C8: for a well-formed identifier extract_triplets returns its digit
\* string with a '/' after every third digit and none at the end: the
\* groups are in order, all of 3 digits but possibly the last, of 1 to 3
C8_TripletsOfDigits ==
    \A n \in 1..Len(tin) :
        (tout # Unset /\ WellFormedWith(tin, n)) =>
            /\ tout # None
            /\ SelectSeq(tout, NotSlash) = SubSeq(tin, 5, 4 + n)
            /\ \A i \in 1..Len(tout) : (tout[i] = "/") <=> (i % 4 = 0)
            /\ Len(tout) % 4 # 0

C8_Witness ==
    /\ tout # Unset
    /\ WellFormedWith(tin, 5)
    /\ Len(tout) = 6
    /\ tout[4] = "/"

====
